---- MODULE Spec2Model ----
(***************************************************************************)
(* Book Review REST API: the Books and Reviews collections of the document *)
(* store and the route handlers of routes/bookRoutes and routes/           *)
(* reviewRoutes.  Every `await` of a handler is one atomic store operation *)
(* and one step of the model; between two awaits of one request the steps  *)
(* of other requests may run.  averageRating is kept in hundredths         *)
(* (4.50 is 450).                                                          *)
(***************************************************************************)
EXTENDS Integers, FiniteSets, Sequences, TLC

VARIABLES books, reviews, nextBookId, nextReviewId, req, helpfulBase

vars == <<books, reviews, nextBookId, nextReviewId, req, helpfulBase>>

(* ------------------------------ bounds -------------------------------- *)

\* Number of ObjectIds the Books collection hands out.
MaxBooks == 2
\* Number of ObjectIds the Reviews collection hands out.
MaxReviews == 2
\* Number of requests that can be in progress at the same time.
MaxProcs == 2
\* Cap on the helpful counter (PATCH is not accepted beyond it).
MaxHelpful == 2
\* Number of reviews created when requests run one at a time.
MaxSeqReviews == 3
\* Number of reviews in the store updateBookRating is run on in isolation.
MaxIsoReviews == 3
\* Number of concurrent PATCH requests, and of reviews they can name.
MaxPatchProcs == 3
MaxPatchReviews == 2

BookIds == 1..MaxBooks
\* The ids a request can name for a review: those handed out so far, and 0,
\* a well-formed ObjectId that no document has.
ReviewIdInputs == 0..(nextReviewId - 1)
Procs == 1..MaxProcs

(* ------------------------- request inputs ----------------------------- *)

\* A field the request body does not carry.
Unset == -1

\* body('rating').isInt({ min: 1, max: 5 })
MinRating == 1
MaxRating == 5
Ratings == MinRating..MaxRating
\* The ratings requests are sent with.
RatingInputs == {4, 5}

\* averageRating: { min: 0, max: 5 }, in hundredths.
MaxAverage == 500

Isbns == {"978-3-16-148410-0", "0-306-40615-2"}

\* Bodies of POST/PUT /api/books: the validated isbn, and the two aggregate
\* fields, which validateBook neither requires nor removes.
BookBodies ==
    { [isbn |-> i, averageRating |-> a, numberOfReviews |-> n] :
        i \in Isbns, a \in {Unset, 300}, n \in {Unset, 1} }

\* The bodies among them that carry the validated fields only.
PlainBookBodies ==
    { b \in BookBodies : b.averageRating = Unset /\ b.numberOfReviews = Unset }

\* Bodies of POST/PUT /api/reviews: book and rating are validated, helpful is
\* a schema field validateReview neither requires nor removes.
ReviewBodies ==
    { [book |-> b, rating |-> r, helpful |-> h] :
        b \in BookIds, r \in RatingInputs, h \in {Unset, 0} }

\* The bodies among them that carry the validated fields only.
PlainReviewBodies == { b \in ReviewBodies : b.helpful = Unset }

NoBody == [none |-> TRUE]

(* --------------------------- schema defaults -------------------------- *)

DefaultAverageRating == 0
DefaultNumberOfReviews == 0
DefaultHelpful == 0

(* --------------------------- request records -------------------------- *)

Idle ==
    [op |-> "none", pc |-> "idle", id |-> 0, body |-> NoBody,
     oldBook |-> 0, ubrBook |-> 0, count |-> 0, total |-> 0,
     ret |-> "none", status |-> 0]

\* A handler has sent its response: nothing of it runs after this.
Finish(r, code) ==
    [r EXCEPT !.pc = "done", !.status = code,
              !.oldBook = 0, !.ubrBook = 0, !.count = 0, !.total = 0,
              !.ret = "none"]

(* ------------------------------ the store ----------------------------- *)

Stored(coll, id) == id \in DOMAIN coll

Insert(coll, id, doc) ==
    [x \in DOMAIN coll \cup {id} |-> IF x = id THEN doc ELSE coll[x]]

Remove(coll, ids) == [x \in DOMAIN coll \ ids |-> coll[x]]

\* Review.find({ book: bookId })
ReviewsOf(bookId) == { r \in DOMAIN reviews : reviews[r].book = bookId }

\* reviews.reduce((sum, review) => sum + review.rating, 0)
RECURSIVE totalRating(_)
totalRating(S) ==
    IF S = {} THEN 0
    ELSE LET r == CHOOSE x \in S : TRUE
         IN  reviews[r].rating + totalRating(S \ {r})

\* (total / count).toFixed(2), in hundredths: the nearest hundredth, the
\* larger one when two are equally near (two are equally near only for a
\* count that is a multiple of 8).  The second definition cuts the digits
\* after the second instead.
toFixed2Floor(total, count) == (100 * total) \div count
toFixed2(total, count) == (200 * total + count) \div (2 * count)

\* The average updateBookRating stores for the fetched reviews.
averageOf(total, count) == IF count = 0 THEN 0 ELSE toFixed2(total, count)

\* A request in state r with op o at step s.
At(p, o, s) == req[p].op = o /\ req[p].pc = s

SetReq(p, r) == req' = [req EXCEPT ![p] = r]

(* ------------------ reviewRoutes: updateBookRating -------------------- *)

\* Enter updateBookRating(bookId); `ret` names the call site to return to.
CallUpdateBookRating(r, bookId, ret) ==
    [r EXCEPT !.pc = "ubr_find", !.ubrBook = bookId, !.ret = ret,
              !.count = 0, !.total = 0]

\* const reviews = await Review.find({ book: bookId });
updateBookRating_find(p) ==
    /\ req[p].pc = "ubr_find"
    /\ LET R == ReviewsOf(req[p].ubrBook)
       IN  SetReq(p, [req[p] EXCEPT !.pc = "ubr_update",
                                    !.count = Cardinality(R),
                                    !.total = totalRating(R)])
    /\ UNCHANGED <<books, reviews, nextBookId, nextReviewId, helpfulBase>>

\* What the caller does once updateBookRating has returned.
AfterUpdateBookRatingOldOnly(r) ==
    CASE r.ret = "post" -> [r EXCEPT !.pc = "post_populate", !.ubrBook = 0,
                                     !.count = 0, !.total = 0, !.ret = "none"]
      [] r.ret = "isolated" -> Finish(r, 0)
      [] OTHER -> Finish(r, 200)

AfterUpdateBookRating(r) ==
    CASE r.ret = "post" -> [r EXCEPT !.pc = "post_populate", !.ubrBook = 0,
                                     !.count = 0, !.total = 0, !.ret = "none"]
      [] r.ret = "put_old" ->
            \* if (oldReview.book.toString() !== req.body.book)
            IF r.oldBook # r.body.book
            THEN CallUpdateBookRating(r, r.body.book, "put_new")
            ELSE Finish(r, 200)
      [] r.ret = "put_new" -> Finish(r, 200)
      [] r.ret = "delete" -> Finish(r, 200)
      [] r.ret = "isolated" -> Finish(r, 0)

\* await Book.findByIdAndUpdate(bookId, { averageRating, numberOfReviews });
\* a bookId that matches no document updates nothing.
updateBookRating_update(p) ==
    /\ req[p].pc = "ubr_update"
    /\ LET b == req[p].ubrBook
       IN  books' = IF Stored(books, b)
                    THEN [books EXCEPT ![b].averageRating =
                                           averageOf(req[p].total, req[p].count),
                                       ![b].numberOfReviews = req[p].count]
                    ELSE books
    /\ SetReq(p, AfterUpdateBookRating(req[p]))
    /\ UNCHANGED <<reviews, nextBookId, nextReviewId, helpfulBase>>

(* ------------------ reviewRoutes: POST /api/reviews ------------------- *)

\* Requests that will still take an ObjectId of the Reviews collection.
PendingSaves ==
    { q \in DOMAIN req : req[q].pc \in {"post_findBook", "post_save"} }

StartPostReview(p, Bodies, limit) ==
    /\ req[p].pc = "idle"
    /\ nextReviewId + Cardinality(PendingSaves) <= limit
    /\ \E body \in Bodies :
          SetReq(p, [Idle EXCEPT !.op = "PostReview", !.pc = "post_findBook",
                                 !.body = body])
    /\ UNCHANGED <<books, reviews, nextBookId, nextReviewId, helpfulBase>>

\* The handler without its check that the book exists.
PostReview_findBookUnchecked(p) ==
    /\ At(p, "PostReview", "post_findBook")
    /\ SetReq(p, [req[p] EXCEPT !.pc = "post_save"])
    /\ UNCHANGED <<books, reviews, nextBookId, nextReviewId, helpfulBase>>

\* const book = await Book.findById(req.body.book); if (!book) return 404
PostReview_findBook(p) ==
    /\ At(p, "PostReview", "post_findBook")
    /\ SetReq(p, IF Stored(books, req[p].body.book)
                 THEN [req[p] EXCEPT !.pc = "post_save"]
                 ELSE Finish(req[p], 404))
    /\ UNCHANGED <<books, reviews, nextBookId, nextReviewId, helpfulBase>>

\* const review = new Review(req.body); await review.save();
PostReview_save(p) ==
    /\ At(p, "PostReview", "post_save")
    /\ LET body == req[p].body
           doc == [book |-> body.book, rating |-> body.rating,
                   helpful |-> IF body.helpful = Unset THEN DefaultHelpful
                               ELSE body.helpful]
       IN  /\ reviews' = Insert(reviews, nextReviewId, doc)
           /\ nextReviewId' = nextReviewId + 1
           /\ SetReq(p, CallUpdateBookRating([req[p] EXCEPT !.id = nextReviewId],
                                             body.book, "post"))
    /\ UNCHANGED <<books, nextBookId, helpfulBase>>

\* await Review.findById(review._id).populate(...); res.status(201)
PostReview_populate(p) ==
    /\ At(p, "PostReview", "post_populate")
    /\ SetReq(p, Finish(req[p], 201))
    /\ UNCHANGED <<books, reviews, nextBookId, nextReviewId, helpfulBase>>

(* ------------------ reviewRoutes: PUT /api/reviews/:id ---------------- *)

StartPutReview(p, Bodies) ==
    /\ req[p].pc = "idle"
    /\ \E id \in ReviewIdInputs, body \in Bodies :
          SetReq(p, [Idle EXCEPT !.op = "PutReview", !.pc = "put_findBook",
                                 !.id = id, !.body = body])
    /\ UNCHANGED <<books, reviews, nextBookId, nextReviewId, helpfulBase>>

\* const book = await Book.findById(req.body.book); if (!book) return 404
PutReview_findBook(p) ==
    /\ At(p, "PutReview", "put_findBook")
    /\ SetReq(p, IF Stored(books, req[p].body.book)
                 THEN [req[p] EXCEPT !.pc = "put_findOld"]
                 ELSE Finish(req[p], 404))
    /\ UNCHANGED <<books, reviews, nextBookId, nextReviewId, helpfulBase>>

\* const oldReview = await Review.findById(req.params.id); if (!oldReview) 404
PutReview_findOld(p) ==
    /\ At(p, "PutReview", "put_findOld")
    /\ SetReq(p, IF Stored(reviews, req[p].id)
                 THEN [req[p] EXCEPT !.pc = "put_update",
                                     !.oldBook = reviews[req[p].id].book]
                 ELSE Finish(req[p], 404))
    /\ UNCHANGED <<books, reviews, nextBookId, nextReviewId, helpfulBase>>

\* await Review.findByIdAndUpdate(req.params.id, req.body, ...): the fields
\* of the body are set on the document; an id that matches none updates
\* nothing.  Then updateBookRating(oldReview.book).
PutReview_update(p) ==
    /\ At(p, "PutReview", "put_update")
    /\ LET id == req[p].id
           body == req[p].body
       IN  reviews' = IF Stored(reviews, id)
                      THEN [reviews EXCEPT
                              ![id].book = body.book,
                              ![id].rating = body.rating,
                              ![id].helpful = IF body.helpful = Unset THEN @
                                              ELSE body.helpful]
                      ELSE reviews
    /\ SetReq(p, CallUpdateBookRating(req[p], req[p].oldBook, "put_old"))
    /\ UNCHANGED <<books, nextBookId, nextReviewId, helpfulBase>>

(* ---------------- reviewRoutes: DELETE /api/reviews/:id --------------- *)

StartDeleteReview(p) ==
    /\ req[p].pc = "idle"
    /\ \E id \in ReviewIdInputs :
          SetReq(p, [Idle EXCEPT !.op = "DeleteReview", !.pc = "del_find",
                                 !.id = id])
    /\ UNCHANGED <<books, reviews, nextBookId, nextReviewId, helpfulBase>>

\* const review = await Review.findById(req.params.id); if (!review) 404
DeleteReview_find(p) ==
    /\ At(p, "DeleteReview", "del_find")
    /\ SetReq(p, IF Stored(reviews, req[p].id)
                 THEN [req[p] EXCEPT !.pc = "del_delete",
                                     !.oldBook = reviews[req[p].id].book]
                 ELSE Finish(req[p], 404))
    /\ UNCHANGED <<books, reviews, nextBookId, nextReviewId, helpfulBase>>

\* await Review.findByIdAndDelete(req.params.id); updateBookRating(bookId)
DeleteReview_delete(p) ==
    /\ At(p, "DeleteReview", "del_delete")
    /\ reviews' = Remove(reviews, {req[p].id})
    /\ SetReq(p, CallUpdateBookRating(req[p], req[p].oldBook, "delete"))
    /\ UNCHANGED <<books, nextBookId, nextReviewId, helpfulBase>>

(* -------------- reviewRoutes: PATCH /api/reviews/:id/helpful ---------- *)

\* PATCH requests on review id that have not answered yet.
PendingPatches(id) ==
    { q \in DOMAIN req : req[q].op = "PatchHelpful" /\ req[q].id = id
                          /\ req[q].pc # "done" }

StartPatchHelpful(p, cap) ==
    /\ req[p].pc = "idle"
    /\ \E id \in ReviewIdInputs :
          /\ Stored(reviews, id) =>
                 reviews[id].helpful + Cardinality(PendingPatches(id)) < cap
          /\ SetReq(p, [Idle EXCEPT !.op = "PatchHelpful", !.pc = "patch_inc",
                                 !.id = id])
    /\ UNCHANGED <<books, reviews, nextBookId, nextReviewId, helpfulBase>>

\* The increment as a read of the document followed by a save of helpful + 1.
PatchHelpful_readThenSave(p) ==
    /\ req[p].op = "PatchHelpful"
    /\ \/ /\ req[p].pc = "patch_inc"
          /\ SetReq(p, IF Stored(reviews, req[p].id)
                       THEN [req[p] EXCEPT !.pc = "patch_save",
                                           !.count = reviews[req[p].id].helpful]
                       ELSE Finish(req[p], 404))
          /\ UNCHANGED reviews
       \/ /\ req[p].pc = "patch_save"
          /\ reviews' = IF Stored(reviews, req[p].id)
                        THEN [reviews EXCEPT ![req[p].id].helpful = req[p].count + 1]
                        ELSE reviews
          /\ SetReq(p, Finish(req[p], 200))
    /\ UNCHANGED <<books, nextBookId, nextReviewId, helpfulBase>>

\* await Review.findByIdAndUpdate(id, { $inc: { helpful: 1 } }, { new: true });
\* if (!review) return 404
PatchHelpful_inc(p) ==
    /\ At(p, "PatchHelpful", "patch_inc")
    /\ IF Stored(reviews, req[p].id)
       THEN /\ reviews' = [reviews EXCEPT ![req[p].id].helpful = @ + 1]
            /\ SetReq(p, Finish(req[p], 200))
       ELSE /\ UNCHANGED reviews
            /\ SetReq(p, Finish(req[p], 404))
    /\ UNCHANGED <<books, nextBookId, nextReviewId, helpfulBase>>

(* ------------------- bookRoutes: POST /api/books ---------------------- *)

\* The unique index on isbn (bookSchema.isbn.unique): a write that would give
\* document `id` (0: a new document) the isbn of another document is refused
\* with error code 11000.
DuplicateIsbnOnInsertOnly(id, isbn) ==
    id = 0 /\ \E b \in DOMAIN books : books[b].isbn = isbn

DuplicateIsbn(id, isbn) ==
    \E b \in DOMAIN books : b # id /\ books[b].isbn = isbn

\* averageRating: { min: 0, max: 5 }, numberOfReviews: { min: 0 }
ValidAggregates(body) ==
    /\ body.averageRating = Unset \/ body.averageRating \in 0..MaxAverage
    /\ body.numberOfReviews = Unset \/ body.numberOfReviews >= 0

StartPostBook(p, Bodies) ==
    /\ req[p].pc = "idle"
    /\ nextBookId <= MaxBooks
    /\ \E body \in Bodies :
          SetReq(p, [Idle EXCEPT !.op = "PostBook", !.pc = "bpost_save",
                                 !.body = body])
    /\ UNCHANGED <<books, reviews, nextBookId, nextReviewId, helpfulBase>>

\* const book = new Book(req.body); await book.save();
\* error.code === 11000 and every validation error answer 400.
PostBook_save(p) ==
    /\ At(p, "PostBook", "bpost_save")
    /\ LET body == req[p].body
           doc == [isbn |-> body.isbn,
                   averageRating |-> IF body.averageRating = Unset
                                     THEN DefaultAverageRating
                                     ELSE body.averageRating,
                   numberOfReviews |-> IF body.numberOfReviews = Unset
                                       THEN DefaultNumberOfReviews
                                       ELSE body.numberOfReviews]
       IN  IF ~ValidAggregates(body) \/ DuplicateIsbn(0, body.isbn)
              \/ nextBookId > MaxBooks
           THEN /\ SetReq(p, Finish(req[p], 400))
                /\ UNCHANGED <<books, nextBookId>>
           ELSE /\ books' = Insert(books, nextBookId, doc)
                /\ nextBookId' = nextBookId + 1
                /\ SetReq(p, Finish([req[p] EXCEPT !.id = nextBookId], 201))
    /\ UNCHANGED <<reviews, nextReviewId, helpfulBase>>

(* ------------------- bookRoutes: PUT /api/books/:id ------------------- *)

StartPutBook(p, Bodies) ==
    /\ req[p].pc = "idle"
    /\ \E id \in BookIds, body \in Bodies :
          SetReq(p, [Idle EXCEPT !.op = "PutBook", !.pc = "bput_update",
                                 !.id = id, !.body = body])
    /\ UNCHANGED <<books, reviews, nextBookId, nextReviewId, helpfulBase>>

\* const book = await Book.findByIdAndUpdate(req.params.id, req.body,
\*   { new: true, runValidators: true }); if (!book) return 404
PutBook_update(p) ==
    /\ At(p, "PutBook", "bput_update")
    /\ LET id == req[p].id
           body == req[p].body
       IN  IF ~ValidAggregates(body)
           THEN /\ SetReq(p, Finish(req[p], 400))
                /\ UNCHANGED books
           ELSE IF ~Stored(books, id)
           THEN /\ SetReq(p, Finish(req[p], 404))
                /\ UNCHANGED books
           ELSE IF DuplicateIsbn(id, body.isbn)
           THEN /\ SetReq(p, Finish(req[p], 400))
                /\ UNCHANGED books
           ELSE /\ books' = [books EXCEPT
                      ![id].isbn = body.isbn,
                      ![id].averageRating =
                          IF body.averageRating = Unset THEN @
                          ELSE body.averageRating,
                      ![id].numberOfReviews =
                          IF body.numberOfReviews = Unset THEN @
                          ELSE body.numberOfReviews]
                /\ SetReq(p, Finish(req[p], 200))
    /\ UNCHANGED <<reviews, nextBookId, nextReviewId, helpfulBase>>

(* ------------------ bookRoutes: DELETE /api/books/:id ----------------- *)

StartDeleteBook(p) ==
    /\ req[p].pc = "idle"
    /\ \E id \in BookIds :
          SetReq(p, [Idle EXCEPT !.op = "DeleteBook", !.pc = "bdel_book",
                                 !.id = id])
    /\ UNCHANGED <<books, reviews, nextBookId, nextReviewId, helpfulBase>>

\* The handler with its two store operations in the other order: the reviews
\* go first, the book after them.
DeleteBookReviewsFirst(p) ==
    /\ req[p].op = "DeleteBook"
    /\ \/ /\ req[p].pc = "bdel_book"
          /\ reviews' = Remove(reviews, ReviewsOf(req[p].id))
          /\ SetReq(p, [req[p] EXCEPT !.pc = "bdel_reviews"])
          /\ UNCHANGED books
       \/ /\ req[p].pc = "bdel_reviews"
          /\ books' = Remove(books, {req[p].id})
          /\ SetReq(p, Finish(req[p], IF Stored(books, req[p].id)
                                      THEN 200 ELSE 404))
          /\ UNCHANGED reviews
    /\ UNCHANGED <<nextBookId, nextReviewId, helpfulBase>>

\* const book = await Book.findByIdAndDelete(req.params.id);
\* if (!book) return 404
\* await Review.deleteMany({ book: req.params.id });
DeleteBook(p) ==
    /\ req[p].op = "DeleteBook"
    /\ \/ /\ req[p].pc = "bdel_book"
          /\ books' = Remove(books, {req[p].id})
          /\ SetReq(p, IF Stored(books, req[p].id)
                       THEN [req[p] EXCEPT !.pc = "bdel_reviews"]
                       ELSE Finish(req[p], 404))
          /\ UNCHANGED reviews
       \/ /\ req[p].pc = "bdel_reviews"
          /\ reviews' = Remove(reviews, ReviewsOf(req[p].id))
          /\ SetReq(p, Finish(req[p], 200))
          /\ UNCHANGED books
    /\ UNCHANGED <<nextBookId, nextReviewId, helpfulBase>>

(* --------------------------- the response ----------------------------- *)

\* res.json(...) has been delivered; the connection takes the next request.
Respond(p) ==
    /\ req[p].pc = "done"
    /\ SetReq(p, Idle)
    /\ UNCHANGED <<books, reviews, nextBookId, nextReviewId, helpfulBase>>

(* ----------------- the server: concurrent requests -------------------- *)

\* Book documents as POST /api/books stores them for a body without the
\* aggregate fields: the schema defaults.
NewBook(isbn) ==
    [isbn |-> isbn, averageRating |-> DefaultAverageRating,
     numberOfReviews |-> DefaultNumberOfReviews]

\* The isbn of the b-th book created: one per book.
IsbnOf(b) ==
    <<"978-3-16-148410-0", "0-306-40615-2", "0-19-852663-6",
      "978-0-13-110362-7">>[b]

\* The review routes and the cascade of DELETE /api/books/:id, on a store
\* that holds the books created so far and no review yet.
Init ==
    /\ books = [b \in BookIds |-> NewBook(IsbnOf(b))]
    /\ reviews = <<>>
    /\ nextBookId = MaxBooks + 1
    /\ nextReviewId = 1
    /\ req = [p \in Procs |-> Idle]
    /\ helpfulBase = <<>>

ReviewStep(p) ==
    \/ updateBookRating_find(p)
    \/ updateBookRating_update(p)
    \/ PostReview_findBook(p)
    \/ PostReview_save(p)
    \/ PostReview_populate(p)
    \/ PutReview_findBook(p)
    \/ PutReview_findOld(p)
    \/ PutReview_update(p)
    \/ DeleteReview_find(p)
    \/ DeleteReview_delete(p)

Next ==
    \E p \in Procs :
        \/ StartPostReview(p, PlainReviewBodies, MaxReviews)
        \/ StartPutReview(p, PlainReviewBodies)
        \/ StartDeleteReview(p)
        \/ StartDeleteBook(p)
        \/ ReviewStep(p)
        \/ DeleteBook(p)
        \/ Respond(p)

Spec == Init /\ [][Next]_vars

(* ----------------- the book routes: concurrent requests --------------- *)

BookInit ==
    /\ books = <<>>
    /\ reviews = <<>>
    /\ nextBookId = 1
    /\ nextReviewId = 1
    /\ req = [p \in Procs |-> Idle]
    /\ helpfulBase = <<>>

BookNext ==
    \E p \in Procs :
        \/ StartPostBook(p, PlainBookBodies)
        \/ StartPutBook(p, PlainBookBodies)
        \/ StartDeleteBook(p)
        \/ PostBook_save(p)
        \/ PutBook_update(p)
        \/ DeleteBook(p)
        \/ Respond(p)

BookSpec == BookInit /\ [][BookNext]_vars

(* ------------- the review routes: one request at a time --------------- *)

SeqProcs == {1}

\* The books created so far, none of them reviewed yet; the other ids are of
\* books deleted again.
SeqInit ==
    /\ \E S \in SUBSET BookIds : books = [b \in S |-> NewBook(IsbnOf(b))]
    /\ reviews = <<>>
    /\ nextBookId = MaxBooks + 1
    /\ nextReviewId = 1
    /\ req = [p \in SeqProcs |-> Idle]
    /\ helpfulBase = <<>>

SeqNext ==
    \E p \in SeqProcs :
        \/ StartPostReview(p, PlainReviewBodies, MaxSeqReviews)
        \/ StartPutReview(p, PlainReviewBodies)
        \/ StartDeleteReview(p)
        \/ ReviewStep(p)
        \/ Respond(p)

SeqSpec == SeqInit /\ [][SeqNext]_vars

(* ------- requests whose bodies carry further fields of the schema ------ *)

\* One request at a time, on a store that is empty at first; the bodies may
\* carry averageRating and numberOfReviews (books) or helpful (reviews).
BodyNext ==
    \E p \in SeqProcs :
        \/ StartPostBook(p, BookBodies)
        \/ StartPutBook(p, BookBodies)
        \/ StartPostReview(p, ReviewBodies, MaxReviews)
        \/ StartPutReview(p, ReviewBodies)
        \/ StartDeleteReview(p)
        \/ StartPatchHelpful(p, MaxHelpful)
        \/ PostBook_save(p)
        \/ PutBook_update(p)
        \/ ReviewStep(p)
        \/ PatchHelpful_inc(p)
        \/ Respond(p)

BodyInit ==
    /\ books = <<>>
    /\ reviews = <<>>
    /\ nextBookId = 1
    /\ nextReviewId = 1
    /\ req = [p \in SeqProcs |-> Idle]
    /\ helpfulBase = <<>>

BodySpec == BodyInit /\ [][BodyNext]_vars

(* ---------- PATCH /api/reviews/:id/helpful: N concurrent requests ----- *)

PatchProcs == 1..MaxPatchProcs

\* Some reviews with some helpful counts, recorded in helpfulBase; every
\* connection sends one PATCH.
PatchInit ==
    /\ books = [b \in BookIds |-> NewBook(IsbnOf(b))]
    /\ \E S \in SUBSET (1..MaxPatchReviews) :
          \E h \in [S -> 0..1] :
             /\ reviews = [r \in S |-> [book |-> 1, rating |-> 4,
                                        helpful |-> h[r]]]
             /\ helpfulBase = h
    /\ nextBookId = MaxBooks + 1
    /\ nextReviewId = MaxPatchReviews + 1
    /\ req = [p \in PatchProcs |-> Idle]

PatchNext ==
    \E p \in PatchProcs :
        \/ StartPatchHelpful(p, MaxPatchProcs + 2)
        \/ PatchHelpful_inc(p)

PatchSpec == PatchInit /\ [][PatchNext]_vars

(* ---------------- updateBookRating run in isolation ------------------- *)

IsoProcs == {1}

\* Any reviews (ratings 1..5) on the books, whose aggregates are left over
\* from two earlier reviews rated 4 and 5.  Which id a review has makes no
\* difference, so the ids are given in the order of book and rating.
IsoInit ==
    /\ books = [b \in BookIds |->
                  [isbn |-> IsbnOf(b), averageRating |-> 450,
                   numberOfReviews |-> 2]]
    /\ \E k \in 0..MaxIsoReviews :
          \E S \in {1..k} :
          \E bk \in [S -> BookIds], rt \in [S -> Ratings] :
             /\ \A i, j \in S :
                   i < j => \/ bk[i] < bk[j]
                            \/ bk[i] = bk[j] /\ rt[i] <= rt[j]
             /\ reviews = [r \in S |-> [book |-> bk[r], rating |-> rt[r],
                                     helpful |-> DefaultHelpful]]
    /\ nextBookId = MaxBooks + 1
    /\ nextReviewId = MaxIsoReviews + 1
    /\ req = [p \in IsoProcs |-> Idle]
    /\ helpfulBase = <<>>

\* updateBookRating(bookId) called on its own, for a stored book.
StartUpdateBookRating(p) ==
    /\ req[p].pc = "idle"
    /\ \E b \in DOMAIN books :
          SetReq(p, CallUpdateBookRating(
                       [Idle EXCEPT !.op = "updateBookRating", !.id = b],
                       b, "isolated"))
    /\ UNCHANGED <<books, reviews, nextBookId, nextReviewId, helpfulBase>>

IsoNext ==
    \E p \in IsoProcs :
        \/ StartUpdateBookRating(p)
        \/ updateBookRating_find(p)
        \/ updateBookRating_update(p)
        \/ Respond(p)

RecomputeSpec == IsoInit /\ [][IsoNext]_vars

(* ====================================================================== *)
(*                              Properties                                *)
(* ====================================================================== *)

\* No request is between its first store operation and its response.
NoneInProgress == \A p \in DOMAIN req : req[p].pc \in {"idle", "done"}

\* Request p takes a step.
Steps(p) == req'[p] # req[p]

\* The sum of the ratings of the reviews S, rating by rating.
RatingCount(S, k) == Cardinality({ r \in S : reviews[r].rating = k })
RatingTotal(S) ==
    1 * RatingCount(S, 1) + 2 * RatingCount(S, 2) + 3 * RatingCount(S, 3)
      + 4 * RatingCount(S, 4) + 5 * RatingCount(S, 5)

\* The mean rating of the reviews S rounded to 2 decimals, in hundredths: the
\* h with h - 1/2 <= 100 * mean < h + 1/2; 0 for no reviews.
RoundedMean(S) ==
    IF S = {} THEN 0
    ELSE LET n == Cardinality(S)
             t == RatingTotal(S)
         IN  CHOOSE h \in 0..MaxAverage :
                2 * h * n <= 200 * t + n /\ 200 * t + n < 2 * (h + 1) * n

\* Book b's aggregates are the count and the rounded mean of its reviews.
AggregatesMatch(b) ==
    /\ books[b].numberOfReviews = Cardinality(ReviewsOf(b))
    /\ books[b].averageRating = RoundedMean(ReviewsOf(b))

\* C1: after any sequence of review create, update (also one that moves the
\* review to another book) and delete requests run one at a time, every stored
\* book's numberOfReviews is the number of reviews referencing it and its
\* averageRating their mean rounded to 2 decimals (both 0 without reviews).
C1_SequentialAggregatesMatch ==
    NoneInProgress => \A b \in DOMAIN books : AggregatesMatch(b)

\* A review update has answered 200 and a book holds three reviews whose mean
\* is not a whole number of hundredths.
C1_Witness ==
    \E p \in DOMAIN req, b \in DOMAIN books :
        /\ req[p].pc = "done" /\ req[p].op = "PutReview" /\ req[p].status = 200
        /\ Cardinality(ReviewsOf(b)) = 3
        /\ books[b].averageRating \in {433, 467}

\* C2: whenever no request is in progress, no stored review references a
\* deleted book, whatever the interleaving of DELETE /api/books/:id with
\* review creates and updates.  (Every book id has been handed out, so a book
\* that is not stored has been deleted.)
C2_NoDanglingReview ==
    NoneInProgress =>
        \A r \in DOMAIN reviews : Stored(books, reviews[r].book)

\* C3: when the PATCH requests on a review have all completed, its helpful
\* counter is higher than before by exactly the number of those requests.
C3_HelpfulCountsEveryPatch ==
    NoneInProgress =>
        \A r \in DOMAIN reviews :
            reviews[r].helpful =
                helpfulBase[r]
                + Cardinality({ p \in DOMAIN req :
                                  /\ req[p].op = "PatchHelpful"
                                  /\ req[p].pc = "done"
                                  /\ req[p].id = r })

\* Three PATCH requests on one review have run concurrently and completed.
C3_Witness ==
    /\ \A p \in DOMAIN req : req[p].pc = "done" /\ req[p].status = 200
    /\ \E r \in DOMAIN reviews : \A p \in DOMAIN req : req[p].id = r
    /\ Cardinality(DOMAIN req) >= 2

\* C4: POST /api/reviews whose book id references no stored book answers 404
\* and leaves the store unchanged: no review is saved, no book is modified,
\* and the handler does nothing after it.
C4_PostReviewUnknownBook ==
    [][ \A p \in DOMAIN req :
          ( /\ At(p, "PostReview", "post_findBook")
            /\ Steps(p)
            /\ ~Stored(books, req[p].body.book) )
          => /\ req'[p].pc = "done"
             /\ req'[p].status = 404
             /\ req'[p].id = 0
             /\ books' = books
             /\ reviews' = reviews
             /\ nextReviewId' = nextReviewId ]_vars

\* A review create has answered 404 for a book that is not stored.
C4_Witness ==
    \E p \in DOMAIN req :
        /\ req[p].op = "PostReview" /\ req[p].pc = "done"
        /\ req[p].status = 404
        /\ ~Stored(books, req[p].body.book)

\* C5: no book create or update stores an averageRating or numberOfReviews
\* taken from the request: the step of POST /api/books stores the defaults,
\* the step of PUT /api/books/:id keeps the values the book had.
C5_AggregatesNotClientSet ==
    [][ \A p \in DOMAIN req :
          ( /\ At(p, "PostBook", "bpost_save") \/ At(p, "PutBook", "bput_update")
            /\ Steps(p) )
          => \A b \in DOMAIN books' :
                IF b \in DOMAIN books
                THEN /\ books'[b].averageRating = books[b].averageRating
                     /\ books'[b].numberOfReviews = books[b].numberOfReviews
                ELSE /\ books'[b].averageRating = DefaultAverageRating
                     /\ books'[b].numberOfReviews = DefaultNumberOfReviews ]_vars

\* C6: updateBookRating(bookId) run in isolation sets the book's
\* numberOfReviews to the number of reviews referencing it and averageRating
\* to the mean of their ratings rounded to 2 decimals (both 0 for none), and
\* changes nothing when the book already holds these values.
C6_UpdateBookRatingResult ==
    [][ \A p \in DOMAIN req :
          (req[p].pc = "ubr_update" /\ req'[p].pc = "done")
          => LET b == req[p].ubrBook
             IN  /\ books'[b].numberOfReviews = Cardinality(ReviewsOf(b))
                 /\ books'[b].averageRating = RoundedMean(ReviewsOf(b))
                 /\ AggregatesMatch(b) => books' = books
                 /\ \A c \in DOMAIN books \ {b} : books'[c] = books[c]
                 /\ reviews' = reviews ]_vars

\* updateBookRating has returned for a book with three reviews whose mean is
\* not a whole number of hundredths.
C6_Witness ==
    \E p \in DOMAIN req :
        /\ req[p].op = "updateBookRating" /\ req[p].pc = "done"
        /\ Cardinality(ReviewsOf(req[p].id)) = 3
        /\ 100 * RatingTotal(ReviewsOf(req[p].id))
              # 3 * books[req[p].id].averageRating
        /\ books[req[p].id].numberOfReviews = 3

\* C7: the helpful counter of a stored review never decreases, and the only
\* step that changes it is the increment of PATCH /api/reviews/:id/helpful,
\* which adds exactly 1.
C7_HelpfulOnlyIncremented ==
    [][ \A r \in DOMAIN reviews \cap DOMAIN reviews' :
          \/ reviews'[r].helpful = reviews[r].helpful
          \/ /\ reviews'[r].helpful = reviews[r].helpful + 1
             /\ \E p \in DOMAIN req :
                   At(p, "PatchHelpful", "patch_inc") /\ Steps(p)
                   /\ req[p].id = r ]_vars

\* C8: no two stored books share an isbn; a book create, or an update of a
\* stored book, whose isbn is that of another stored book answers 400 and
\* leaves the Books collection unchanged.
C8_IsbnUnique ==
    [][ /\ \A a, b \in DOMAIN books' :
              a # b => books'[a].isbn # books'[b].isbn
        /\ \A p \in DOMAIN req :
              ( /\ \/ At(p, "PostBook", "bpost_save")
                   \/ At(p, "PutBook", "bput_update") /\ Stored(books, req[p].id)
                /\ Steps(p)
                /\ \E b \in DOMAIN books :
                      b # req[p].id /\ books[b].isbn = req[p].body.isbn )
              => /\ req'[p].pc = "done"
                 /\ req'[p].status = 400
                 /\ books' = books ]_vars

\* A book create and a book update have each answered 400 for the isbn of
\* another stored book.
C8_Witness ==
    \E p, q \in DOMAIN req :
        /\ req[p].op = "PostBook" /\ req[q].op = "PutBook"
        /\ \A x \in {p, q} :
              /\ req[x].pc = "done" /\ req[x].status = 400
              /\ \E b \in DOMAIN books :
                    b # req[x].id /\ books[b].isbn = req[x].body.isbn
        /\ Stored(books, req[q].id)

\* C9: for any interleaving of concurrent review creates, updates and deletes
\* that all run to completion, once no request is in progress every stored
\* book's numberOfReviews and averageRating are the count and the rounded mean
\* of the reviews then referencing it.
C9_AggregatesConvergeWhenQuiet ==
    NoneInProgress => \A b \in DOMAIN books : AggregatesMatch(b)

\* C10: DELETE /api/books/:id removes the book first and its reviews only
\* afterwards: it deletes no review while the book is stored, and when the
\* book is not found it answers 404 and deletes no review.
C10_BookThenReviews ==
    [][ \A p \in DOMAIN req :
          (req[p].op = "DeleteBook" /\ Steps(p))
          => /\ reviews' # reviews => ~Stored(books, req[p].id)
             /\ books' # books => reviews' = reviews
             /\ req'[p].status = 404 => (reviews' = reviews /\ books' = books)
             /\ (req[p].pc = "bdel_book" /\ Stored(books, req[p].id))
                   => (~Stored(books', req[p].id) /\ req'[p].pc = "bdel_reviews")
             /\ req[p].pc = "bdel_reviews"
                   => \A r \in DOMAIN reviews' : reviews'[r].book # req[p].id ]_vars

\* One book delete has removed its book and is about to remove the book's
\* reviews, while another has answered 404 for a book that reviews still
\* reference.
C10_Witness ==
    \E p, q \in DOMAIN req :
        /\ req[p].op = "DeleteBook" /\ req[p].pc = "bdel_reviews"
        /\ ~Stored(books, req[p].id) /\ ReviewsOf(req[p].id) # {}
        /\ req[q].op = "DeleteBook" /\ req[q].pc = "done"
        /\ req[q].status = 404 /\ ReviewsOf(req[q].id) # {}

====
